---- MODULE Spec2Model ----
(***************************************************************************)
(* Model of missing_values_app.py: analyze_missing_values_streamlit, the   *)
(* aggregated summary and downloads rendered by main, create_download_zip. *)
(*                                                                         *)
(* Numbers with two decimals (Missing_Percentage) are kept as integer      *)
(* hundredths: 30.0 is 3000, 33.33 is 3333.                                *)
(***************************************************************************)
EXTENDS Integers, Sequences, FiniteSets, TLC

\* Largest number of data rows of a sheet.
MaxRows == 3

\* The sheet names a request may use, and the columns each sheet has when the
\* workbook holds it.  "S1" is always in the workbook, "S2" may be absent.
SheetNames == {"S1", "S2"}
SheetLayout == [S1 |-> {"A", "B"}, S2 |-> {"A"}]

\* The column names a request may use; no sheet has a column "Z".
RequestColumns == {"A", "B", "Z"}

\* Position of a column name in the ascending order of the names.
NameRank(c) == CASE c = "A" -> 1 [] c = "B" -> 2 [] OTHER -> 3

VARIABLES
    excel_file,            \* the workbook: sheet name -> [columns, rows]
    sheet_column_mapping,  \* the request: sequence of [sheet_name, columns]
    pc,                    \* position of the run
    i,                     \* index of the mapping entry being processed
    df,                    \* the loaded sheet: [columns, rows]
    columns_to_analyze,    \* the columns of the current sheet still analysed
    k,                     \* index of the column being summarised
    summary_data,          \* sequence of ColumnStat rows
    html_reports,          \* sheet names of the document mapping, in order
    warnings,              \* st.warning calls, in order
    errors,                \* st.error calls, in order
    agg_summary,           \* the aggregated summary main displays and offers
    zip_entries            \* the archive create_download_zip returned

vars == <<excel_file, sheet_column_mapping, pc, i, df, columns_to_analyze, k,
          summary_data, html_reports, warnings, errors, agg_summary, zip_entries>>

----------------------------------------------------------------------------
\* Helpers on sequences.

Range(s) == {s[n] : n \in DOMAIN s}

IsInjective(s) == \A m, n \in DOMAIN s : s[m] = s[n] => m = n

\* Every duplicate-free sequence over the set S.
RECURSIVE DistinctSeqs(_)
DistinctSeqs(S) ==
    {<<>>} \cup UNION {{<<x>> \o t : t \in DistinctSeqs(S \ {x})} : x \in S}

RECURSIVE SumOf(_, _)
SumOf(s, field) ==
    IF s = <<>> THEN 0 ELSE s[1][field] + SumOf(Tail(s), field)

\* The names of the set S in ascending order.
RECURSIVE SortedNames(_)
SortedNames(S) ==
    IF S = {} THEN <<>>
    ELSE LET m == CHOOSE c \in S : \A d \in S : NameRank(c) <= NameRank(d)
         IN  <<m>> \o SortedNames(S \ {m})

\* The names of a sequence, each once, in the order of first appearance.
RECURSIVE FirstAppearance(_)
FirstAppearance(columns) ==
    IF columns = <<>> THEN <<>>
    ELSE <<columns[1]>>
         \o FirstAppearance(SelectSeq(Tail(columns), LAMBDA c : c # columns[1]))

NoDf == [columns |-> {}, rows |-> 0]

----------------------------------------------------------------------------
\* The pure computations of the code.

\* The check made against the request itself: no column is ever missing.
missing_cols_OfRequest(columns, df_columns) ==
    SelectSeq(columns, LAMBDA col : col \notin Range(columns))

\* [col for col in columns_to_analyze if col not in df.columns]
missing_cols(columns, df_columns) ==
    SelectSeq(columns, LAMBDA col : col \notin df_columns)

\* The available columns in the order of the sheet's columns.
available_cols_SheetOrder(columns, df_columns) ==
    SortedNames(Range(columns) \cap df_columns)

\* [col for col in columns_to_analyze if col in df.columns]
available_cols(columns, df_columns) ==
    SelectSeq(columns, LAMBDA col : col \in df_columns)

\* An empty check that looks at the rows only.
df_selected_empty_RowsOnly(columns, rows) == rows = 0

\* df_selected.empty: some axis of the selected table has length 0.
df_selected_empty(columns, rows) == Len(columns) = 0 \/ rows = 0

\* The integer nearest to num / den, ties to the even one (numpy's round).
RoundHalfEven(num, den) ==
    LET q == num \div den
        r == num % den
    IN  IF 2 * r < den THEN q
        ELSE IF 2 * r > den THEN q + 1
        ELSE IF q % 2 = 0 THEN q ELSE q + 1

\* The percentage cut after two decimals instead of rounded.
missing_pct_Truncated(missing_count, total_rows) ==
    (10000 * missing_count) \div total_rows

\* round((missing_count / total_rows) * 100, 2), in hundredths.
missing_pct(missing_count, total_rows) ==
    RoundHalfEven(10000 * missing_count, total_rows)

\* The dictionary appended to summary_data.
ColumnStat(sheet, col, total_rows, missing_count) ==
    [Sheet |-> sheet,
     Column |-> col,
     Total_Rows |-> total_rows,
     Missing_Count |-> missing_count,
     Missing_Percentage |-> missing_pct(missing_count, total_rows),
     Non_Missing_Count |-> total_rows - missing_count]

\* The group keys of summary_df.groupby('Column') with a sort=False.
group_keys_Unsorted(summary_df) ==
    FirstAppearance([n \in 1..Len(summary_df) |-> summary_df[n].Column])

\* The group keys of summary_df.groupby('Column'): sorted ascending.
group_keys(summary_df) == SortedNames({row.Column : row \in Range(summary_df)})

\* The aggregation with 'first' in place of 'sum' for Total_Rows.
groupby_agg_First(summary_df) ==
    LET keys == group_keys(summary_df)
        group(c) == SelectSeq(summary_df, LAMBDA row : row.Column = c)
    IN  [n \in 1..Len(keys) |->
            [Column |-> keys[n],
             Total_Rows |-> group(keys[n])[1].Total_Rows,
             Missing_Count |-> SumOf(group(keys[n]), "Missing_Count"),
             Missing_Percentage |->
                 RoundHalfEven(SumOf(group(keys[n]), "Missing_Percentage"),
                               Len(group(keys[n])))]]

\* summary_df.groupby('Column').agg({sum, sum, mean}).round(2).  The mean is
\* rounded as an exact number; the binary value of a tie may round either way.
groupby_agg(summary_df) ==
    LET keys == group_keys(summary_df)
        group(c) == SelectSeq(summary_df, LAMBDA row : row.Column = c)
    IN  [n \in 1..Len(keys) |->
            [Column |-> keys[n],
             Total_Rows |-> SumOf(group(keys[n]), "Total_Rows"),
             Missing_Count |-> SumOf(group(keys[n]), "Missing_Count"),
             Missing_Percentage |->
                 RoundHalfEven(SumOf(group(keys[n]), "Missing_Percentage"),
                               Len(group(keys[n])))]]

\* The guard of the aggregated summary in main.
main_has_aggregate(summary_df) == Len(summary_df) > 1

\* The guard of the aggregated summary in create_download_zip.
zip_has_aggregate(summary_df) == Len(summary_df) > 0

SummaryCsvName == "missing_values_summary.csv"
AggregatedCsvName == "aggregated_missing_summary.csv"
ReportName(sheet) == sheet \o "_missing_values_report.html"

\* The archive with the reports written before the aggregated summary.
create_download_zip_ReportsFirst(summary_df, reports) ==
    <<[name |-> SummaryCsvName, rows |-> summary_df]>>
    \o [n \in 1..Len(reports) |-> [name |-> ReportName(reports[n]), rows |-> <<>>]]
    \o (IF zip_has_aggregate(summary_df)
        THEN <<[name |-> AggregatedCsvName, rows |-> groupby_agg(summary_df)]>>
        ELSE <<>>)

\* The entries create_download_zip writes, in the order of its writestr calls.
create_download_zip(summary_df, reports) ==
    <<[name |-> SummaryCsvName, rows |-> summary_df]>>
    \o (IF zip_has_aggregate(summary_df)
        THEN <<[name |-> AggregatedCsvName, rows |-> groupby_agg(summary_df)]>>
        ELSE <<>>)
    \o [n \in 1..Len(reports) |-> [name |-> ReportName(reports[n]), rows |-> <<>>]]

----------------------------------------------------------------------------
\* The inputs.

Workbooks ==
    UNION {{[s \in names |-> [columns |-> SheetLayout[s], rows |-> r[s]]]
            : r \in [names -> 0..MaxRows]}
           : names \in {{"S1"}, {"S1", "S2"}}}

Mappings ==
    UNION {[1..Len(order) -> DistinctSeqs(RequestColumns)] \X {order}
           : order \in DistinctSeqs(SheetNames)}

MappingOf(pair) ==
    [n \in 1..Len(pair[2]) |-> [sheet_name |-> pair[2][n], columns |-> pair[1][n]]]

Init ==
    /\ excel_file \in Workbooks
    /\ \E pair \in Mappings : sheet_column_mapping = MappingOf(pair)
    /\ pc = "open"
    /\ i = 0
    /\ df = NoDf
    /\ columns_to_analyze = <<>>
    /\ k = 0
    /\ summary_data = <<>>
    /\ html_reports = <<>>
    /\ warnings = <<>>
    /\ errors = <<>>
    /\ agg_summary = <<>>
    /\ zip_entries = <<>>

----------------------------------------------------------------------------
\* analyze_missing_values_streamlit

sheet_name == sheet_column_mapping[i].sheet_name

\* pd.ExcelFile(excel_file) succeeds: the loop over the mapping starts; with
\* an empty mapping the function returns summary_data, html_reports at once.
OpenWorkbook ==
    /\ pc = "open"
    /\ pc' = IF sheet_column_mapping # <<>> THEN "loop" ELSE "returned"
    /\ i' = 1
    /\ UNCHANGED <<excel_file, sheet_column_mapping, df, columns_to_analyze, k,
                   summary_data, html_reports, warnings, errors, agg_summary,
                   zip_entries>>

\* pd.ExcelFile(excel_file) raises: the outer handler returns [], {}.
OpenWorkbookFails ==
    /\ pc = "open"
    /\ errors' = Append(errors, [kind |-> "analyzing", sheet |-> "", exc |-> "open"])
    /\ summary_data' = <<>>
    /\ html_reports' = <<>>
    /\ pc' = "returned"
    /\ UNCHANGED <<excel_file, sheet_column_mapping, i, df, columns_to_analyze,
                   k, warnings, agg_summary, zip_entries>>

\* The next sheet of the mapping; after the last one the function returns
\* summary_data, html_reports.
NextSheet ==
    /\ i' = i + 1
    /\ pc' = IF i < Len(sheet_column_mapping) THEN "loop" ELSE "returned"
    /\ df' = NoDf
    /\ columns_to_analyze' = <<>>
    /\ k' = 0

\* The sheet is not among excel_file_obj.sheet_names: warning, continue.
SheetNotFound ==
    /\ pc = "loop"
    /\ sheet_name \notin DOMAIN excel_file
    /\ warnings' = Append(warnings, [kind |-> "sheet_not_found",
                                     sheet |-> sheet_name, columns |-> <<>>])
    /\ NextSheet
    /\ UNCHANGED <<excel_file, sheet_column_mapping, summary_data, html_reports,
                   errors, agg_summary, zip_entries>>

\* pd.read_excel returns the sheet.
ReadExcel ==
    /\ pc = "loop"
    /\ sheet_name \in DOMAIN excel_file
    /\ df' = excel_file[sheet_name]
    /\ columns_to_analyze' = sheet_column_mapping[i].columns
    /\ pc' = "validate"
    /\ UNCHANGED <<excel_file, sheet_column_mapping, i, k, summary_data,
                   html_reports, warnings, errors, agg_summary, zip_entries>>

\* A per-sheet handler that ends the run as the outer handler does.
SheetHandler_Returns(exc) ==
    /\ errors' = Append(errors, [kind |-> "processing", sheet |-> sheet_name,
                                 exc |-> exc])
    /\ summary_data' = <<>>
    /\ html_reports' = <<>>
    /\ pc' = "returned"
    /\ UNCHANGED <<excel_file, sheet_column_mapping, i, df, columns_to_analyze,
                   k, warnings, agg_summary, zip_entries>>

\* The handler of the per-sheet try block: st.error with the exception, continue.
SheetHandler(exc) ==
    /\ errors' = Append(errors, [kind |-> "processing", sheet |-> sheet_name,
                                 exc |-> exc])
    /\ NextSheet
    /\ UNCHANGED <<excel_file, sheet_column_mapping, summary_data, html_reports,
                   warnings, agg_summary, zip_entries>>

\* pd.read_excel raises.
ReadExcelFails ==
    /\ pc = "loop"
    /\ sheet_name \in DOMAIN excel_file
    /\ SheetHandler("read_excel")

\* The column check, the selection and the empty check.
ValidateColumns ==
    /\ pc = "validate"
    /\ LET missing == missing_cols(columns_to_analyze, df.columns)
           available == available_cols(columns_to_analyze, df.columns)
           selected == IF missing # <<>> THEN available ELSE columns_to_analyze
       IN  /\ warnings' = IF missing # <<>>
                          THEN Append(warnings, [kind |-> "columns_not_found",
                                                 sheet |-> sheet_name,
                                                 columns |-> missing])
                          ELSE warnings
           /\ IF (missing # <<>> /\ available = <<>>)
                 \/ df_selected_empty(selected, df.rows)
              THEN NextSheet
              ELSE /\ columns_to_analyze' = selected
                   /\ k' = 1
                   /\ pc' = "stat"
                   /\ UNCHANGED <<i, df>>
    /\ UNCHANGED <<excel_file, sheet_column_mapping, summary_data, html_reports,
                   errors, agg_summary, zip_entries>>

\* One iteration of the loop that collects the summary data; the number of
\* null cells of the column, df_selected[col].isnull().sum(), is read here.
CollectColumn ==
    /\ pc = "stat"
    /\ k <= Len(columns_to_analyze)
    /\ \E missing_count \in 0..df.rows :
          summary_data' = Append(summary_data,
              ColumnStat(sheet_name, columns_to_analyze[k], df.rows, missing_count))
    /\ k' = k + 1
    /\ UNCHANGED <<excel_file, sheet_column_mapping, pc, i, df,
                   columns_to_analyze, html_reports, warnings, errors,
                   agg_summary, zip_entries>>

\* ProfileReport(...).to_html() returns: the document is stored.
GenerateReport ==
    /\ pc = "stat"
    /\ k > Len(columns_to_analyze)
    /\ html_reports' = Append(html_reports, sheet_name)
    /\ NextSheet
    /\ UNCHANGED <<excel_file, sheet_column_mapping, summary_data, warnings,
                   errors, agg_summary, zip_entries>>

\* A report failure that reaches the outer handler: the run returns [], {}.
GenerateReportFails_Returns ==
    /\ pc = "stat"
    /\ k > Len(columns_to_analyze)
    /\ errors' = Append(errors, [kind |-> "report", sheet |-> sheet_name,
                                 exc |-> "report"])
    /\ summary_data' = <<>>
    /\ html_reports' = <<>>
    /\ pc' = "returned"
    /\ UNCHANGED <<excel_file, sheet_column_mapping, i, df, columns_to_analyze,
                   k, warnings, agg_summary, zip_entries>>

\* ProfileReport(...) or to_html() raises: st.error, the sheet goes on to its end.
GenerateReportFails ==
    /\ pc = "stat"
    /\ k > Len(columns_to_analyze)
    /\ errors' = Append(errors, [kind |-> "report", sheet |-> sheet_name,
                                 exc |-> "report"])
    /\ NextSheet
    /\ UNCHANGED <<excel_file, sheet_column_mapping, summary_data, html_reports,
                   warnings, agg_summary, zip_entries>>

\* An exception while the sheet's columns are summarised.
ProcessingFails ==
    /\ pc = "stat"
    /\ k <= Len(columns_to_analyze)
    /\ SheetHandler("summary")

----------------------------------------------------------------------------
\* main, after the analysis returned

\* The results, the aggregated summary and the downloads.
RenderResults ==
    /\ pc = "returned"
    /\ summary_data # <<>>
    /\ agg_summary' = IF main_has_aggregate(summary_data)
                      THEN groupby_agg(summary_data)
                      ELSE <<>>
    /\ zip_entries' = create_download_zip(summary_data, html_reports)
    /\ pc' = "done"
    /\ UNCHANGED <<excel_file, sheet_column_mapping, i, df, columns_to_analyze, k,
                   summary_data, html_reports, warnings, errors>>

\* "No data could be processed."
RenderNoData ==
    /\ pc = "returned"
    /\ summary_data = <<>>
    /\ errors' = Append(errors, [kind |-> "no_data", sheet |-> "", exc |-> ""])
    /\ pc' = "done"
    /\ UNCHANGED <<excel_file, sheet_column_mapping, i, df, columns_to_analyze, k,
                   summary_data, html_reports, warnings, agg_summary, zip_entries>>

Next ==
    \/ OpenWorkbook
    \/ OpenWorkbookFails
    \/ SheetNotFound
    \/ ReadExcel
    \/ ReadExcelFails
    \/ ValidateColumns
    \/ CollectColumn
    \/ ProcessingFails
    \/ GenerateReport
    \/ GenerateReportFails
    \/ RenderResults
    \/ RenderNoData

Spec == Init /\ [][Next]_vars

----------------------------------------------------------------------------
\* Vocabulary of the properties.

\* analyze_missing_values_streamlit has returned.
Finished == pc \in {"returned", "done"}

HasError(kind, sheet) ==
    \E n \in DOMAIN errors : errors[n].kind = kind /\ errors[n].sheet = sheet

OpenFailed == HasError("analyzing", "")
ReportFailed(sheet) == HasError("report", sheet)
SheetFailed(sheet) == HasError("processing", sheet)
ReadFailed(sheet) ==
    \E n \in DOMAIN errors :
        /\ errors[n].kind = "processing"
        /\ errors[n].sheet = sheet
        /\ errors[n].exc = "read_excel"

WarningsOf(kind, sheet) ==
    SelectSeq(warnings, LAMBDA w : w.kind = kind /\ w.sheet = sheet)

Entry(n) == sheet_column_mapping[n]
Known(n) == Entry(n).sheet_name \in DOMAIN excel_file

\* The requested columns of entry n the sheet has, and those it lacks, in the
\* order of the request.
Resolved(n) ==
    SelectSeq(Entry(n).columns,
              LAMBDA c : c \in excel_file[Entry(n).sheet_name].columns)
Unresolved(n) ==
    SelectSeq(Entry(n).columns,
              LAMBDA c : c \notin excel_file[Entry(n).sheet_name].columns)

\* The columns entry n contributes to the summary when nothing fails.
Expected(n) ==
    IF Known(n) /\ excel_file[Entry(n).sheet_name].rows > 0
    THEN Resolved(n)
    ELSE <<>>

\* The iteration of entry n is over.
Completed(n) == ~OpenFailed /\ (n < i \/ Finished)

RowsOf(sheet) == SelectSeq(summary_data, LAMBDA row : row.Sheet = sheet)
ColumnsOfRows(sheet) == [n \in 1..Len(RowsOf(sheet)) |-> RowsOf(sheet)[n].Column]
HasDocument(sheet) == sheet \in Range(html_reports)

\* Entry n was processed as a sheet is when nothing fails for it, except that
\* its document is missing when its report generation failed.
ProcessedNormally(n) ==
    LET sheet == Entry(n).sheet_name
        rows == RowsOf(sheet)
        expected == Expected(n)
    IN  /\ [m \in 1..Len(rows) |-> rows[m].Column] = expected
        /\ \A m \in DOMAIN rows : rows[m].Total_Rows = excel_file[sheet].rows
        /\ HasDocument(sheet) <=> (expected # <<>> /\ ~ReportFailed(sheet))

EntryNames == [n \in 1..Len(zip_entries) |-> zip_entries[n].name]
ZipHasAggregate == AggregatedCsvName \in Range(EntryNames)
ZipAggregate ==
    IF ZipHasAggregate
    THEN (CHOOSE e \in Range(zip_entries) : e.name = AggregatedCsvName).rows
    ELSE <<>>
ColumnsOf(table) == [n \in 1..Len(table) |-> table[n].Column]

\* The sum of a field over the first n summary rows of column c.
RECURSIVE ColumnTotal(_, _, _)
ColumnTotal(c, field, n) ==
    IF n = 0 THEN 0
    ELSE ColumnTotal(c, field, n - 1)
         + (IF summary_data[n].Column = c THEN summary_data[n][field] ELSE 0)

----------------------------------------------------------------------------
\* C1 as stated: no (sheet, column) pair absent from the workbook is a row of
\* the summary, and once the run is over every unknown sheet has exactly one
\* 'sheet not found' warning and every known sheet with unresolved columns has
\* exactly one 'columns not found' warning.
C1_OmissionLaw ==
    /\ \A row \in Range(summary_data) :
          /\ row.Sheet \in DOMAIN excel_file
          /\ row.Column \in excel_file[row.Sheet].columns
    /\ (Finished /\ ~OpenFailed) =>
          \A n \in DOMAIN sheet_column_mapping :
             /\ ~Known(n) =>
                   Len(WarningsOf("sheet_not_found", Entry(n).sheet_name)) = 1
             /\ (Known(n) /\ Unresolved(n) # <<>>) =>
                   Len(WarningsOf("columns_not_found", Entry(n).sheet_name)) = 1

\* C1 amended: as C1, but the 'columns not found' warning of a known sheet is
\* emitted exactly once when the sheet was loaded and not at all when loading
\* it raised; it names the unresolved columns, and no other warning exists.
C1_OmissionLawLoaded ==
    /\ \A row \in Range(summary_data) :
          /\ row.Sheet \in DOMAIN excel_file
          /\ row.Column \in excel_file[row.Sheet].columns
    /\ (Finished /\ ~OpenFailed) =>
          /\ \A n \in DOMAIN sheet_column_mapping :
                LET s == Entry(n).sheet_name
                IN  /\ ~Known(n) =>
                          /\ Len(WarningsOf("sheet_not_found", s)) = 1
                          /\ WarningsOf("columns_not_found", s) = <<>>
                    /\ Known(n) =>
                          /\ WarningsOf("sheet_not_found", s) = <<>>
                          /\ WarningsOf("columns_not_found", s) =
                                IF Unresolved(n) # <<>> /\ ~ReadFailed(s)
                                THEN <<[kind |-> "columns_not_found", sheet |-> s,
                                        columns |-> Unresolved(n)]>>
                                ELSE <<>>
          /\ \A w \in Range(warnings) :
                \E n \in DOMAIN sheet_column_mapping : Entry(n).sheet_name = w.sheet

C1_Witness ==
    /\ Finished
    /\ ~OpenFailed
    /\ summary_data # <<>>
    /\ \E n \in DOMAIN sheet_column_mapping : ~Known(n)
    /\ \E n \in DOMAIN sheet_column_mapping :
          /\ Known(n)
          /\ Unresolved(n) # <<>>
          /\ Resolved(n) # <<>>
          /\ ~ReadFailed(Entry(n).sheet_name)
    /\ Len(warnings) = 2

\* C2: when the report generator raised for a sheet, the rows computed for
\* that sheet are in the summary, the sheet has no document, and every later
\* sheet is processed as it is when nothing failed before it.
C2_ReportFailureIsolated ==
    \A n \in DOMAIN sheet_column_mapping :
        ReportFailed(Entry(n).sheet_name) =>
            /\ Resolved(n) # <<>>
            /\ ColumnsOfRows(Entry(n).sheet_name) = Resolved(n)
            /\ ~HasDocument(Entry(n).sheet_name)
            /\ i > n
            /\ Finished => i = Len(sheet_column_mapping) + 1
            /\ \A m \in DOMAIN sheet_column_mapping :
                  (m > n /\ Completed(m) /\ ~SheetFailed(Entry(m).sheet_name))
                      => ProcessedNormally(m)

C2_Witness ==
    /\ Finished
    /\ \E n, m \in DOMAIN sheet_column_mapping :
          /\ n < m
          /\ ReportFailed(Entry(n).sheet_name)
          /\ Len(RowsOf(Entry(n).sheet_name)) = 2
          /\ HasDocument(Entry(m).sheet_name)

\* C3 as stated: the archive holds aggregated_missing_summary.csv exactly when
\* the summary has at least two rows, which is also exactly when main offers
\* the aggregated summary.
C3_AggregateOnlyAboveOneRow ==
    pc = "done" =>
        /\ ZipHasAggregate <=> Len(summary_data) >= 2
        /\ ZipHasAggregate <=> agg_summary # <<>>

C5_FirstAppearanceOrder ==
    pc = "done" =>
        /\ agg_summary # <<>> =>
              ColumnsOf(agg_summary) = FirstAppearance(ColumnsOf(summary_data))
        /\ ZipHasAggregate =>
              ColumnsOf(ZipAggregate) = FirstAppearance(ColumnsOf(summary_data))

\* C5 amended: the aggregated summary has one record per distinct column of
\* the summary, in ascending order of the column names.
C5_AscendingNameOrder ==
    pc = "done" =>
        \A table \in {agg_summary, ZipAggregate} :
            table # <<>> =>
                /\ Range(ColumnsOf(table)) = Range(ColumnsOf(summary_data))
                /\ \A m, n \in DOMAIN table :
                      m < n => NameRank(table[m].Column) < NameRank(table[n].Column)

C5_Witness ==
    /\ pc = "done"
    /\ summary_data # <<>>
    /\ summary_data[1].Column = "B"
    /\ Len(agg_summary) = 2
    /\ Len(ZipAggregate) = 2

\* C6: when the summary has at least two rows, every column of it has one
\* aggregated record, whose Total_Rows and Missing_Count are the sums of
\* Total_Rows and Missing_Count over all summary rows of that column, whatever
\* their sheets; rows (10, 3) and (20, 5) of column A give 30 and 8 (a fact
\* about the functions alone, evaluated on the initial states).
C6_AggregationLaw ==
    /\ (pc = "done" /\ Len(summary_data) >= 2) =>
          \A table \in {agg_summary, ZipAggregate} :
              \A c \in Range(ColumnsOf(summary_data)) :
                  /\ Cardinality({n \in DOMAIN table : table[n].Column = c}) = 1
                  /\ \A n \in DOMAIN table :
                        table[n].Column = c =>
                            /\ table[n].Total_Rows
                                  = ColumnTotal(c, "Total_Rows", Len(summary_data))
                            /\ table[n].Missing_Count
                                  = ColumnTotal(c, "Missing_Count", Len(summary_data))
    /\ pc = "open" =>
          LET example == groupby_agg(<<ColumnStat("S1", "A", 10, 3),
                                       ColumnStat("S2", "A", 20, 5)>>)
          IN  /\ Len(example) = 1
              /\ example[1].Total_Rows = 30
              /\ example[1].Missing_Count = 8

C6_Witness ==
    /\ pc = "done"
    /\ \E m, n \in DOMAIN summary_data :
          /\ summary_data[m].Column = "A"
          /\ summary_data[n].Column = "A"
          /\ summary_data[m].Sheet # summary_data[n].Sheet
          /\ summary_data[m].Total_Rows # summary_data[n].Total_Rows
          /\ summary_data[m].Missing_Count > 0
          /\ summary_data[n].Missing_Count > 0
    /\ \E n \in DOMAIN summary_data : summary_data[n].Column = "B"

\* C7: every row of the summary has Total_Rows > 0, 0 <= Missing_Count <=
\* Total_Rows, Non_Missing_Count = Total_Rows - Missing_Count and a
\* Missing_Percentage between 0 and 100 that is 100 * Missing_Count /
\* Total_Rows rounded to two decimals; a column is summarised only for a
\* table with rows; 10 rows with 3 missing give 10, 3, 30.0, 7 (a fact about
\* the function alone, evaluated on the initial states).
C7_ColumnStatInvariant ==
    /\ \A row \in Range(summary_data) :
          /\ row.Total_Rows > 0
          /\ 0 <= row.Missing_Count
          /\ row.Missing_Count <= row.Total_Rows
          /\ row.Non_Missing_Count = row.Total_Rows - row.Missing_Count
          /\ 0 <= row.Missing_Percentage
          /\ row.Missing_Percentage <= 10000
          /\ 2 * (row.Missing_Percentage * row.Total_Rows - 10000 * row.Missing_Count)
                <= row.Total_Rows
          /\ 2 * (10000 * row.Missing_Count - row.Missing_Percentage * row.Total_Rows)
                <= row.Total_Rows
    /\ pc = "stat" => df.rows > 0
    /\ pc = "open" =>
          ColumnStat("S1", "A", 10, 3) =
             [Sheet |-> "S1", Column |-> "A", Total_Rows |-> 10, Missing_Count |-> 3,
              Missing_Percentage |-> 3000, Non_Missing_Count |-> 7]

C7_Witness ==
    \E row \in Range(summary_data) :
        /\ row.Total_Rows = 3
        /\ row.Missing_Count = 2
        /\ row.Missing_Percentage = 6667

\* C8: when the workbook cannot be opened the function returns an empty
\* summary and an empty document mapping; otherwise every entry of the mapping
\* is iterated, a sheet whose loading or processing raised has no document,
\* and every other sheet, before or after it, is processed as it is when
\* nothing fails.
C8_PropagationPolicy ==
    /\ (Finished /\ OpenFailed) => (summary_data = <<>> /\ html_reports = <<>>)
    /\ (Finished /\ ~OpenFailed) => i = Len(sheet_column_mapping) + 1
    /\ \A n \in DOMAIN sheet_column_mapping :
          Completed(n) =>
              IF SheetFailed(Entry(n).sheet_name)
              THEN /\ ~HasDocument(Entry(n).sheet_name)
                   /\ ReadFailed(Entry(n).sheet_name)
                         => RowsOf(Entry(n).sheet_name) = <<>>
              ELSE ProcessedNormally(n)

C8_Witness ==
    /\ Finished
    /\ ~OpenFailed
    /\ Len(sheet_column_mapping) = 2
    /\ SheetFailed(Entry(2).sheet_name)
    /\ Len(RowsOf(Entry(1).sheet_name)) = 2
    /\ HasDocument(Entry(1).sheet_name)

\* The (sheet, column) pairs entries n.. of the mapping contribute.
RECURSIVE ExpectedPairs(_)
ExpectedPairs(n) ==
    IF n > Len(sheet_column_mapping) THEN <<>>
    ELSE [m \in 1..Len(Expected(n)) |-> <<Entry(n).sheet_name, Expected(n)[m]>>]
         \o ExpectedPairs(n + 1)

\* C9: after a run without errors the summary holds exactly one row for each
\* requested (sheet, column) pair whose sheet exists, has the column and has
\* at least one row, ordered by the mapping's sheets and, within a sheet, by
\* the request's order of the resolved columns.
C9_SummaryContentAndOrder ==
    (Finished /\ \A e \in Range(errors) : e.kind = "no_data") =>
        [n \in 1..Len(summary_data) |->
            <<summary_data[n].Sheet, summary_data[n].Column>>] = ExpectedPairs(1)

C9_Witness ==
    /\ Finished
    /\ errors = <<>>
    /\ Len(sheet_column_mapping) = 2
    /\ Entry(1).sheet_name = "S2"
    /\ Len(Entry(2).columns) = 3
    /\ Entry(2).columns[2] = "Z"
    /\ Len(summary_data) = 3

\* C10: in every state, every sheet of the document mapping has at least one
\* row in the summary; an entry whose sheet is unknown, has none of the
\* requested columns or has no rows leaves no row, no document and no report
\* in the archive.
C10_SkippedSheetsLeaveNoTrace ==
    /\ \A sheet \in Range(html_reports) : RowsOf(sheet) # <<>>
    /\ \A n \in DOMAIN sheet_column_mapping :
          (Completed(n) /\ Expected(n) = <<>>) =>
              /\ RowsOf(Entry(n).sheet_name) = <<>>
              /\ ~HasDocument(Entry(n).sheet_name)
              /\ ReportName(Entry(n).sheet_name) \notin Range(EntryNames)

C10_Witness ==
    /\ pc = "done"
    /\ html_reports # <<>>
    /\ \E n \in DOMAIN sheet_column_mapping :
          /\ Known(n)
          /\ Entry(n).columns # <<>>
          /\ Expected(n) = <<>>
          /\ ~SheetFailed(Entry(n).sheet_name)

====
